---- MODULE Spec2Model ----
(***************************************************************************)
(* State-machine model of the meeting-minutes request handlers             *)
(* (src/src/actions/index.ts): eight handlers over the three tables        *)
(* Meetings, MeetingSections and ActionItems.                              *)
(*                                                                         *)
(* An optional value (zod .optional(), a nullable column, an absent        *)
(* select result) is a sequence of length at most one: None or Some(v).    *)
(***************************************************************************)
EXTENDS Integers, Sequences, FiniteSets, TLC

VARIABLES
    meetings,     \* Meetings table: primary key id -> row
    sections,     \* MeetingSections table: row number -> row
    items,        \* ActionItems table: row number -> row
    nextSection,  \* row numbers handed out so far in MeetingSections
    nextItem,     \* row numbers handed out so far in ActionItems
    uuids,        \* number of crypto.randomUUID() results so far
    now,          \* the clock that new Date() reads
    budget,       \* number of handler invocations left in the run
    pending,      \* updateMeeting calls between their select and their update
    createdBy,    \* history: meeting id -> user whose createMeeting inserted it
    itemSavedBy,  \* history: action item row number -> user whose saveActionItem inserted it
    sectionMeeting, \* history: section row number -> meetingId it was created with
    resp          \* the last handler's call and its response

vars == <<meetings, sections, items, nextSection, nextItem, uuids, now,
          budget, pending, createdBy, itemSavedBy, sectionMeeting, resp>>

tables == <<meetings, sections, items>>

----------------------------------------------------------------------------
(* Bounds of the model *)

MaxSteps == 3
MaxClock == 1
MaxUuid == 1
MaxSectionRows == 2
MaxItemRows == 2

----------------------------------------------------------------------------
(* Values *)

None == <<>>
Some(v) == <<v>>

\* JavaScript truthiness of an optional string: undefined and "" are falsy.
Truthy(o) == o # None /\ o[1] # ""

Users == {"A", "B"}

\* context.locals.user: absent, or a signed-in user
Callers == {None} \cup {Some(u) : u \in Users}

\* meeting ids a caller writes into a createMeeting request
SuppliedIds == {"m1"}
UuidNames == <<"u1", "u2", "u3", "u4">>
randomUUID == UuidNames[uuids + 1]
MeetingIdInputs == SuppliedIds \cup {UuidNames[i] : i \in 1..MaxUuid}

OK == "OK"
UNAUTHORIZED == "UNAUTHORIZED"
NOT_FOUND == "NOT_FOUND"
DB_ERROR == "DB_ERROR"

Idle == [op |-> "idle"]

Response(op, user, input, err, out) ==
    [op |-> op, user |-> user, input |-> input, err |-> err, out |-> out]

\* if (!user) throw UNAUTHORIZED
requireUser(user) == user # None

----------------------------------------------------------------------------
(* Meetings *)

PatchFields == {"title", "sourceType", "sourceUrl", "scheduledAt", "durationMinutes"}

\* Values a createMeeting request carries, and values an updateMeeting request carries
CreateValue == [title |-> "t1", sourceType |-> "audio", sourceUrl |-> "urlA",
                scheduledAt |-> 0, durationMinutes |-> 30]
UpdateValue == [title |-> "t2", sourceType |-> "upload", sourceUrl |-> "urlB",
                scheduledAt |-> 1, durationMinutes |-> 45]

\* The stored form of a present request field: title is a required column,
\* the others are nullable.
Stored(f, v) == IF f = "title" THEN v ELSE Some(v)

CreateInputs ==
    { [id |-> i, present |-> p] :
        i \in {None} \cup {Some(s) : s \in SuppliedIds},
        p \in { {"title"}, PatchFields } }

\* The sets of fields an updateMeeting request carries: none, each kind alone, all
PatchSets == { {}, {"title"}, {"sourceType"}, {"sourceUrl", "scheduledAt"},
               {"durationMinutes"}, PatchFields }

UpdateInputs ==
    { [id |-> i, present |-> p] : i \in MeetingIdInputs, p \in PatchSets }

\* Variant without the owner condition: eq(Meetings.id, id) alone
OwnedMeetingAnyOwner(uid, id) ==
    IF id \in DOMAIN meetings THEN Some(meetings[id]) ELSE None

\* .where(and(eq(Meetings.id, id), eq(Meetings.userId, user.id))): the matching row
OwnedMeeting(uid, id) ==
    IF id \in DOMAIN meetings /\ meetings[id].userId = uid
    THEN Some(meetings[id]) ELSE None

NewMeeting(id, uid, present) ==
    [id |-> id, userId |-> uid,
     title |-> CreateValue.title,
     sourceType |-> IF "sourceType" \in present THEN Some(CreateValue.sourceType) ELSE None,
     sourceUrl |-> IF "sourceUrl" \in present THEN Some(CreateValue.sourceUrl) ELSE None,
     scheduledAt |-> IF "scheduledAt" \in present THEN Some(CreateValue.scheduledAt) ELSE None,
     durationMinutes |-> IF "durationMinutes" \in present
                         THEN Some(CreateValue.durationMinutes) ELSE None,
     createdAt |-> now, updatedAt |-> now]

\* the keys of rest whose value is not undefined
updateData(present) == present

\* Variant that writes rest whole, absent fields as undefined
PatchedMeetingFullReplace(row, present) ==
    [f \in DOMAIN row |->
        IF f \in updateData(present) THEN Stored(f, UpdateValue[f])
        ELSE IF f = "updatedAt" THEN now
        ELSE IF f \in PatchFields \ {"title"} THEN None
        ELSE row[f]]

\* .set({...updateData, updatedAt: new Date()}) applied to one row
PatchedMeeting(row, present) ==
    [f \in DOMAIN row |->
        IF f \in updateData(present) THEN Stored(f, UpdateValue[f])
        ELSE IF f = "updatedAt" THEN now
        ELSE row[f]]

\* db.update(Meetings).set(...).where(id and userId).returning(): the first updated row
UpdatedMeeting(uid, id, present) ==
    IF OwnedMeeting(uid, id) = None THEN None
    ELSE Some(PatchedMeeting(OwnedMeeting(uid, id)[1], present))

Put(table, key, row) ==
    [k \in DOMAIN table \cup {key} |-> IF k = key THEN row ELSE table[k]]

Drop(table, keys) == [k \in DOMAIN table \ keys |-> table[k]]

Answer(r) ==
    /\ resp' = r
    /\ budget' = budget - 1

\* A row of MeetingSections or ActionItems references the meeting id
Referenced(id) ==
    \/ \E r \in DOMAIN sections : sections[r].meetingId = id
    \/ \E r \in DOMAIN items : items[r].meetingId = id

\* Whether the storage engine enforces the references of the child tables on a
\* delete, and whether it accepts a row whose primary key has no value: the
\* schema leaves both to the engine.
ForeignKeysEnforced == BOOLEAN
NullIdAccepted == BOOLEAN

createMeeting ==
    \E user \in Callers, input \in CreateInputs :
        /\ budget > 0
        /\ IF ~requireUser(user)
           THEN /\ Answer(Response("createMeeting", user, input, UNAUTHORIZED, None))
                /\ UNCHANGED <<meetings, createdBy, uuids>>
           ELSE /\ (input.id = None => uuids < MaxUuid)
                /\ LET id == IF input.id = None THEN randomUUID ELSE input.id[1]
                       row == NewMeeting(id, user[1], input.present)
                   IN /\ uuids' = IF input.id = None THEN uuids + 1 ELSE uuids
                      /\ IF id \in DOMAIN meetings
                         THEN /\ Answer(Response("createMeeting", user, input, DB_ERROR, None))
                              /\ UNCHANGED <<meetings, createdBy>>
                         ELSE /\ meetings' = Put(meetings, id, row)
                              /\ createdBy' = Put(createdBy, id, user[1])
                              /\ Answer(Response("createMeeting", user, input, OK, Some(row)))
        /\ UNCHANGED <<sections, items, nextSection, nextItem, now, pending,
                       itemSavedBy, sectionMeeting>>

updateMeeting ==
    \E user \in Callers, input \in UpdateInputs :
        /\ budget > 0
        /\ IF ~requireUser(user)
           THEN /\ Answer(Response("updateMeeting", user, input, UNAUTHORIZED, None))
                /\ UNCHANGED meetings
           ELSE LET existing == OwnedMeeting(user[1], input.id)
                IN IF existing = None
                   THEN /\ Answer(Response("updateMeeting", user, input, NOT_FOUND, None))
                        /\ UNCHANGED meetings
                   ELSE IF updateData(input.present) = {}
                   THEN /\ Answer(Response("updateMeeting", user, input, OK, existing))
                        /\ UNCHANGED meetings
                   ELSE LET meeting == UpdatedMeeting(user[1], input.id, input.present)
                        IN /\ meetings' = IF meeting = None THEN meetings
                                          ELSE Put(meetings, input.id, meeting[1])
                           /\ Answer(Response("updateMeeting", user, input, OK, meeting))
        /\ UNCHANGED <<sections, items, nextSection, nextItem, uuids, now, pending,
                       createdBy, itemSavedBy, sectionMeeting>>

\* Variant without the where clause
MeetingsOfAnyUser(uid) == DOMAIN meetings

\* select().from(Meetings).where(eq(Meetings.userId, user.id)): the ids of the rows
MeetingsOf(uid) == {id \in DOMAIN meetings : meetings[id].userId = uid}

listMeetings ==
    \E user \in Callers :
        /\ budget > 0
        /\ IF ~requireUser(user)
           THEN Answer(Response("listMeetings", user, None, UNAUTHORIZED, None))
           ELSE Answer(Response("listMeetings", user, None, OK,
                                {meetings[id] : id \in MeetingsOf(user[1])}))
        /\ UNCHANGED <<meetings, sections, items, nextSection, nextItem, uuids, now,
                       pending, createdBy, itemSavedBy, sectionMeeting>>

\* Variant that runs the delete (by id alone) before requireUser
deleteMeetingBeforeAuth ==
    \E user \in Callers, id \in MeetingIdInputs :
        /\ budget > 0
        /\ id \in DOMAIN meetings
        /\ meetings' = Drop(meetings, {id})
        /\ createdBy' = Drop(createdBy, {id})
        /\ Answer(Response("deleteMeeting", user, [id |-> id],
                           IF requireUser(user) THEN OK ELSE UNAUTHORIZED, None))
        /\ UNCHANGED <<sections, items, nextSection, nextItem, uuids, now, pending,
                       itemSavedBy, sectionMeeting>>

deleteMeeting ==
    \E user \in Callers, id \in MeetingIdInputs :
        /\ budget > 0
        /\ LET input == [id |-> id]
           IN IF ~requireUser(user)
              THEN /\ Answer(Response("deleteMeeting", user, input, UNAUTHORIZED, None))
                   /\ UNCHANGED <<meetings, createdBy>>
              ELSE LET deleted == OwnedMeeting(user[1], id)
                   IN IF deleted = None
                      THEN /\ Answer(Response("deleteMeeting", user, input, NOT_FOUND, None))
                           /\ UNCHANGED <<meetings, createdBy>>
                      ELSE \E enforced \in ForeignKeysEnforced :
                           IF enforced /\ Referenced(id)
                           THEN /\ Answer(Response("deleteMeeting", user, input, DB_ERROR, None))
                                /\ UNCHANGED <<meetings, createdBy>>
                           ELSE /\ meetings' = Drop(meetings, {id})
                                /\ createdBy' = Drop(createdBy, {id})
                                /\ Answer(Response("deleteMeeting", user, input, OK, deleted))
        /\ UNCHANGED <<sections, items, nextSection, nextItem, uuids, now, pending,
                       itemSavedBy, sectionMeeting>>

----------------------------------------------------------------------------
(* MeetingSections *)

SectionContents ==
    { [type |-> "notes", orderIndex |-> 1, content |-> "hi"],
      [type |-> "summary", orderIndex |-> 2, content |-> "bye"] }

\* ids a caller writes into a section request: absent, or a key
SectionIdInputs == {None, Some("s1")}

SaveSectionInputs ==
    { [id |-> i, meetingId |-> m, type |-> c.type, orderIndex |-> c.orderIndex,
       content |-> c.content] :
        i \in SectionIdInputs, m \in MeetingIdInputs, c \in SectionContents }

\* select().from(table).where(eq(table.id, id)).limit(1)
RowById(table, id) ==
    IF \E r \in DOMAIN table : table[r].id = Some(id)
    THEN Some(CHOOSE r \in DOMAIN table : table[r].id = Some(id))
    ELSE None

\* Variant that only tests !existing
SameMeetingUnchecked(table, existing, meetingId) == existing # None

\* !existing || existing.meetingId !== input.meetingId, negated
SameMeeting(table, existing, meetingId) ==
    existing # None /\ table[existing[1]].meetingId = meetingId

\* baseValues of saveSection
SectionValues(input) ==
    [meetingId |-> input.meetingId, type |-> input.type,
     orderIndex |-> input.orderIndex, content |-> input.content, createdAt |-> now]

\* .set(baseValues) / .values(baseValues) on a row whose id column holds id
WithValues(id, values) ==
    [f \in DOMAIN values \cup {"id"} |-> IF f = "id" THEN id ELSE values[f]]

saveSection ==
    \E user \in Callers, input \in SaveSectionInputs :
        /\ budget > 0
        /\ IF ~requireUser(user)
           THEN /\ Answer(Response("saveSection", user, input, UNAUTHORIZED, None))
                /\ UNCHANGED <<sections, nextSection, sectionMeeting>>
           ELSE IF OwnedMeeting(user[1], input.meetingId) = None
           THEN /\ Answer(Response("saveSection", user, input, NOT_FOUND, None))
                /\ UNCHANGED <<sections, nextSection, sectionMeeting>>
           ELSE IF Truthy(input.id)
           THEN LET existing == RowById(sections, input.id[1])
                IN IF ~SameMeeting(sections, existing, input.meetingId)
                   THEN /\ Answer(Response("saveSection", user, input, NOT_FOUND, None))
                        /\ UNCHANGED <<sections, nextSection, sectionMeeting>>
                   ELSE LET section == WithValues(input.id, SectionValues(input))
                        IN /\ sections' = Put(sections, existing[1], section)
                           /\ Answer(Response("saveSection", user, input, OK, Some(section)))
                           /\ UNCHANGED <<nextSection, sectionMeeting>>
           ELSE /\ nextSection < MaxSectionRows
                /\ \E accepted \in NullIdAccepted :
                   IF ~accepted
                   THEN /\ Answer(Response("saveSection", user, input, DB_ERROR, None))
                        /\ UNCHANGED <<sections, nextSection, sectionMeeting>>
                   ELSE LET section == WithValues(None, SectionValues(input))
                        IN /\ nextSection' = nextSection + 1
                           /\ sections' = Put(sections, nextSection + 1, section)
                           /\ sectionMeeting' = Put(sectionMeeting, nextSection + 1,
                                                    input.meetingId)
                           /\ Answer(Response("saveSection", user, input, OK, Some(section)))
        /\ UNCHANGED <<meetings, items, nextItem, uuids, now, pending, createdBy, itemSavedBy>>

DeleteSectionInputs ==
    { [id |-> i, meetingId |-> m] : i \in {"s1"}, m \in MeetingIdInputs }

\* .where(and(eq(MeetingSections.id, id), eq(MeetingSections.meetingId, meetingId)))
SectionsMatching(id, meetingId) ==
    {r \in DOMAIN sections : sections[r].id = Some(id) /\ sections[r].meetingId = meetingId}

deleteSection ==
    \E user \in Callers, input \in DeleteSectionInputs :
        /\ budget > 0
        /\ IF ~requireUser(user)
           THEN /\ Answer(Response("deleteSection", user, input, UNAUTHORIZED, None))
                /\ UNCHANGED <<sections, sectionMeeting>>
           ELSE IF OwnedMeeting(user[1], input.meetingId) = None
           THEN /\ Answer(Response("deleteSection", user, input, NOT_FOUND, None))
                /\ UNCHANGED <<sections, sectionMeeting>>
           ELSE LET matching == SectionsMatching(input.id, input.meetingId)
                IN IF matching = {}
                   THEN /\ Answer(Response("deleteSection", user, input, NOT_FOUND, None))
                        /\ UNCHANGED <<sections, sectionMeeting>>
                   ELSE /\ sections' = Drop(sections, matching)
                        /\ sectionMeeting' = Drop(sectionMeeting, matching)
                        /\ Answer(Response("deleteSection", user, input, OK,
                                           Some(sections[CHOOSE r \in matching : TRUE])))
        /\ UNCHANGED <<meetings, items, nextSection, nextItem, uuids, now, pending,
                       createdBy, itemSavedBy>>

----------------------------------------------------------------------------
(* ActionItems *)

ItemContents ==
    { [assignee |-> None, description |-> "d1", dueDate |-> None, status |-> None],
      [assignee |-> Some("bob"), description |-> "d2", dueDate |-> Some(1),
       status |-> Some("open")] }

ItemIdInputs == {None, Some("i1")}

SaveActionItemInputs ==
    { [id |-> i, meetingId |-> m, assignee |-> c.assignee, description |-> c.description,
       dueDate |-> c.dueDate, status |-> c.status] :
        i \in ItemIdInputs, m \in MeetingIdInputs, c \in ItemContents }

\* baseValues of saveActionItem
ItemValues(input) ==
    [meetingId |-> input.meetingId, assignee |-> input.assignee,
     description |-> input.description, dueDate |-> input.dueDate,
     status |-> input.status, createdAt |-> now, updatedAt |-> now]

saveActionItem ==
    \E user \in Callers, input \in SaveActionItemInputs :
        /\ budget > 0
        /\ IF ~requireUser(user)
           THEN /\ Answer(Response("saveActionItem", user, input, UNAUTHORIZED, None))
                /\ UNCHANGED <<items, nextItem, itemSavedBy>>
           ELSE IF OwnedMeeting(user[1], input.meetingId) = None
           THEN /\ Answer(Response("saveActionItem", user, input, NOT_FOUND, None))
                /\ UNCHANGED <<items, nextItem, itemSavedBy>>
           ELSE IF Truthy(input.id)
           THEN LET existing == RowById(items, input.id[1])
                IN IF ~SameMeeting(items, existing, input.meetingId)
                   THEN /\ Answer(Response("saveActionItem", user, input, NOT_FOUND, None))
                        /\ UNCHANGED <<items, nextItem, itemSavedBy>>
                   ELSE LET item == WithValues(input.id, ItemValues(input))
                        IN /\ items' = Put(items, existing[1], item)
                           /\ Answer(Response("saveActionItem", user, input, OK, Some(item)))
                           /\ UNCHANGED <<nextItem, itemSavedBy>>
           ELSE /\ nextItem < MaxItemRows
                /\ \E accepted \in NullIdAccepted :
                   IF ~accepted
                   THEN /\ Answer(Response("saveActionItem", user, input, DB_ERROR, None))
                        /\ UNCHANGED <<items, nextItem, itemSavedBy>>
                   ELSE LET item == WithValues(None, ItemValues(input))
                        IN /\ nextItem' = nextItem + 1
                           /\ items' = Put(items, nextItem + 1, item)
                           /\ itemSavedBy' = Put(itemSavedBy, nextItem + 1, user[1])
                           /\ Answer(Response("saveActionItem", user, input, OK, Some(item)))
        /\ UNCHANGED <<meetings, sections, nextSection, uuids, now, pending, createdBy,
                       sectionMeeting>>

\* input?.meetingId: absent, "" or a meeting id
ListActionItemsInputs == {None, Some("")} \cup {Some(m) : m \in MeetingIdInputs}

\* items.filter(...): the row numbers of the rows kept
filtered(allowedMeetingIds, meetingId) ==
    {r \in DOMAIN items :
        LET matchesMeeting == items[r].meetingId \in allowedMeetingIds
            matchesRequestedMeeting ==
                IF Truthy(meetingId) THEN items[r].meetingId = meetingId[1] ELSE TRUE
        IN matchesMeeting /\ matchesRequestedMeeting}

listActionItems ==
    \E user \in Callers, meetingId \in ListActionItemsInputs :
        /\ budget > 0
        /\ LET input == [meetingId |-> meetingId]
           IN IF ~requireUser(user)
              THEN Answer(Response("listActionItems", user, input, UNAUTHORIZED, None))
              ELSE LET allowedMeetingIds == MeetingsOf(user[1])
                   IN IF Truthy(meetingId) /\ meetingId[1] \notin allowedMeetingIds
                      THEN Answer(Response("listActionItems", user, input, NOT_FOUND, None))
                      ELSE Answer(Response("listActionItems", user, input, OK,
                                           filtered(allowedMeetingIds, meetingId)))
        /\ UNCHANGED <<meetings, sections, items, nextSection, nextItem, uuids, now,
                       pending, createdBy, itemSavedBy, sectionMeeting>>

----------------------------------------------------------------------------
(* The clock, and the specifications *)

Tick ==
    /\ now < MaxClock
    /\ now' = now + 1
    /\ UNCHANGED <<meetings, sections, items, nextSection, nextItem, uuids,
                   budget, pending, createdBy, itemSavedBy, sectionMeeting, resp>>

Empty == [k \in {} |-> None]

\* The three tables as the schema creates them: no rows
Init ==
    /\ meetings = Empty
    /\ sections = Empty
    /\ items = Empty
    /\ nextSection = 0
    /\ nextItem = 0
    /\ uuids = 0
    /\ now = 0
    /\ budget = MaxSteps
    /\ pending = Empty
    /\ createdBy = Empty
    /\ itemSavedBy = Empty
    /\ sectionMeeting = Empty
    /\ resp = Idle

Next ==
    \/ createMeeting
    \/ updateMeeting
    \/ listMeetings
    \/ deleteMeeting
    \/ saveSection
    \/ deleteSection
    \/ saveActionItem
    \/ listActionItems
    \/ Tick

Spec == Init /\ [][Next]_vars

\* The handlers that reach action items, with two more invocations in the run
InitItems ==
    /\ meetings = Empty
    /\ sections = Empty
    /\ items = Empty
    /\ nextSection = 0
    /\ nextItem = 0
    /\ uuids = 0
    /\ now = 0
    /\ budget = MaxSteps + 2
    /\ pending = Empty
    /\ createdBy = Empty
    /\ itemSavedBy = Empty
    /\ sectionMeeting = Empty
    /\ resp = Idle

NextItems ==
    \/ createMeeting
    \/ deleteMeeting
    \/ saveActionItem
    \/ listActionItems

SpecItems == InitItems /\ [][NextItems]_vars

\* A database that already holds rows with ids: one meeting of user A with one
\* section and one action item, as the schema's columns allow. The run has one
\* handler invocation fewer than from the empty database.
SeedMeeting == NewMeeting("m1", "A", PatchFields)
SeedSection ==
    [id |-> Some("s1"), meetingId |-> "m1", type |-> "notes", orderIndex |-> 1,
     content |-> "hi", createdAt |-> 0]
SeedItem ==
    [id |-> Some("i1"), meetingId |-> "m1", assignee |-> None, description |-> "d1",
     dueDate |-> None, status |-> None, createdAt |-> 0, updatedAt |-> 0]

InitSeeded ==
    /\ now = 0
    /\ meetings = Put(Empty, "m1", SeedMeeting)
    /\ sections = Put(Empty, 1, SeedSection)
    /\ items = Put(Empty, 1, SeedItem)
    /\ nextSection = 1
    /\ nextItem = 1
    /\ uuids = 0
    /\ budget = MaxSteps - 1
    /\ pending = Empty
    /\ createdBy = Put(Empty, "m1", "A")
    /\ itemSavedBy = Put(Empty, 1, "A")
    /\ sectionMeeting = Put(Empty, 1, "m1")
    /\ resp = Idle

SpecSeeded == InitSeeded /\ [][Next]_vars

----------------------------------------------------------------------------
(* updateMeeting as its two data-access calls, other requests running between *)

updateMeetingSelect ==
    \E user \in Callers, input \in UpdateInputs :
        /\ budget > 0
        /\ IF ~requireUser(user)
           THEN /\ Answer(Response("updateMeeting", user, input, UNAUTHORIZED, None))
                /\ UNCHANGED pending
           ELSE /\ user[1] \notin DOMAIN pending
                /\ LET existing == OwnedMeeting(user[1], input.id)
                   IN IF existing = None
                      THEN /\ Answer(Response("updateMeeting", user, input, NOT_FOUND, None))
                           /\ UNCHANGED pending
                      ELSE IF updateData(input.present) = {}
                      THEN /\ Answer(Response("updateMeeting", user, input, OK, existing))
                           /\ UNCHANGED pending
                      ELSE /\ pending' = Put(pending, user[1],
                                             [input |-> input, existing |-> existing])
                           /\ budget' = budget - 1
                           /\ UNCHANGED resp
        /\ UNCHANGED <<meetings, sections, items, nextSection, nextItem, uuids, now,
                       createdBy, itemSavedBy, sectionMeeting>>

updateMeetingWrite ==
    \E u \in DOMAIN pending :
        LET input == pending[u].input
            meeting == UpdatedMeeting(u, input.id, input.present)
        IN /\ meetings' = IF meeting = None THEN meetings
                          ELSE Put(meetings, input.id, meeting[1])
           /\ resp' = Response("updateMeeting", Some(u), input, OK, meeting)
           /\ pending' = Drop(pending, {u})
           /\ UNCHANGED <<sections, items, nextSection, nextItem, uuids, now, budget,
                          createdBy, itemSavedBy, sectionMeeting>>

NextConc ==
    \/ createMeeting
    \/ deleteMeeting
    \/ listMeetings
    \/ updateMeetingSelect
    \/ updateMeetingWrite
    \/ Tick

SpecConc == Init /\ [][NextConc]_vars

----------------------------------------------------------------------------
(* Properties *)

\* A step that is one whole handler invocation (Spec, SpecItems, SpecSeeded)
HandlerStep == budget' # budget

MeetingScopedOps ==
    {"updateMeeting", "deleteMeeting", "saveSection", "deleteSection", "saveActionItem"}

\* The meeting id a request names
TargetMeeting(r) ==
    IF r.op \in {"updateMeeting", "deleteMeeting"} THEN r.input.id ELSE r.input.meetingId

\* C1: updateMeeting, deleteMeeting, saveSection, deleteSection and saveActionItem
\* invoked by a user with the id of an existing meeting that another user owns fail
\* with NotFound and leave the three tables unchanged.
C1_ForeignMeetingNotFound ==
    [][ ( /\ HandlerStep
          /\ resp'.op \in MeetingScopedOps
          /\ resp'.user # None
          /\ TargetMeeting(resp') \in DOMAIN meetings
          /\ meetings[TargetMeeting(resp')].userId # resp'.user[1] )
        => ( resp'.err = NOT_FOUND /\ tables' = tables ) ]_vars

C1_Witness ==
    /\ resp.op = "saveActionItem"
    /\ resp.user # None
    /\ resp.err = NOT_FOUND
    /\ TargetMeeting(resp) \in DOMAIN meetings
    /\ meetings[TargetMeeting(resp)].userId # resp.user[1]

\* C2: listActionItems invoked by a user never returns an action item that another
\* user saved, whatever createMeeting (with caller-supplied ids), deleteMeeting and
\* saveActionItem calls came before.
C2_NoForeignActionItems ==
    (resp.op = "listActionItems" /\ resp.err = OK)
        => \A r \in resp.out : itemSavedBy[r] = resp.user[1]

\* C3: listMeetings invoked by a user returns exactly the meetings that user created
\* and has not deleted since, and none that another user created.
C3_ListMeetingsExact ==
    (resp.op = "listMeetings" /\ resp.err = OK)
        => /\ DOMAIN createdBy = DOMAIN meetings
           /\ resp.out = { meetings[id] :
                             id \in {i \in DOMAIN createdBy : createdBy[i] = resp.user[1]} }

C3_Witness ==
    /\ resp.op = "listMeetings"
    /\ resp.err = OK
    /\ resp.out # {}
    /\ \E id \in DOMAIN meetings : createdBy[id] # resp.user[1]

\* C4: listActionItems with no meetingId returns exactly the action items of the
\* caller's meetings; with a meetingId the caller owns, exactly the action items with
\* that meetingId; with any other meetingId it fails with NotFound.
C4_ListActionItemsExact ==
    (resp.op = "listActionItems" /\ resp.user # None)
        => LET owned == {m \in DOMAIN meetings : meetings[m].userId = resp.user[1]}
               mid == resp.input.meetingId
           IN IF mid = None
              THEN /\ resp.err = OK
                   /\ resp.out = {r \in DOMAIN items : items[r].meetingId \in owned}
              ELSE IF mid[1] \in owned
              THEN /\ resp.err = OK
                   /\ resp.out = {r \in DOMAIN items : items[r].meetingId = mid[1]}
              ELSE resp.err = NOT_FOUND

\* C5: a successful updateMeeting sets exactly the fields present in the input, and
\* updatedAt if and only if a field is present; id, userId, createdAt and the absent
\* fields keep their values, and with no field present the row is unchanged. The row
\* returned is the stored row, and no other row of any table changes.
C5_UpdateMeetingFrame ==
    [][ (HandlerStep /\ resp'.op = "updateMeeting" /\ resp'.err = OK)
        => LET id == resp'.input.id
               present == resp'.input.present
           IN /\ id \in DOMAIN meetings
              /\ DOMAIN meetings' = DOMAIN meetings
              /\ \A k \in DOMAIN meetings \ {id} : meetings'[k] = meetings[k]
              /\ \A f \in present : meetings'[id][f] = Stored(f, UpdateValue[f])
              /\ \A f \in DOMAIN meetings[id] \ (present \cup {"updatedAt"}) :
                    meetings'[id][f] = meetings[id][f]
              /\ meetings'[id].updatedAt =
                    IF present = {} THEN meetings[id].updatedAt ELSE now
              /\ resp'.out = Some(meetings'[id])
              /\ sections' = sections
              /\ items' = items ]_vars

C5_Witness ==
    /\ resp.op = "updateMeeting"
    /\ resp.err = OK
    /\ resp.input.present = {"title"}
    /\ meetings[resp.input.id].title = UpdateValue.title
    /\ meetings[resp.input.id].sourceType = Some(CreateValue.sourceType)
    /\ meetings[resp.input.id].updatedAt > meetings[resp.input.id].createdAt

\* C6: saveSection by a signed-in user with the id of an existing section whose
\* meetingId is not the one supplied fails with NotFound and changes no section; and
\* no step changes the meetingId of a section.
C6_SectionNeverReparented ==
    [][ /\ ( /\ HandlerStep
             /\ resp'.op = "saveSection"
             /\ resp'.user # None
             /\ resp'.input.id # None
             /\ \E r \in DOMAIN sections :
                   /\ sections[r].id = resp'.input.id
                   /\ sections[r].meetingId # resp'.input.meetingId )
           => ( resp'.err = NOT_FOUND /\ sections' = sections )
        /\ \A r \in DOMAIN sections \cap DOMAIN sections' :
              /\ sections'[r].meetingId = sections[r].meetingId
              /\ sections'[r].meetingId = sectionMeeting'[r] ]_vars

C6_Witness ==
    /\ resp.op = "saveSection"
    /\ resp.user # None
    /\ resp.err = NOT_FOUND
    /\ resp.input.id # None
    /\ OwnedMeeting(resp.user[1], resp.input.meetingId) # None
    /\ \E r \in DOMAIN sections :
          /\ sections[r].id = resp.input.id
          /\ sections[r].meetingId # resp.input.meetingId

\* C7: saveSection without an id, on a meeting the caller owns, inserts a row whose
\* id is generated and is the id of no other section.
C7_InsertedSectionHasFreshId ==
    ( /\ resp.op = "saveSection"
      /\ resp.user # None
      /\ resp.input.id = None
      /\ OwnedMeeting(resp.user[1], resp.input.meetingId) # None )
    => /\ resp.err = OK
       /\ resp.out[1].id # None
       /\ Cardinality({r \in DOMAIN sections : sections[r].id = resp.out[1].id}) = 1

C9_UnauthorizedNoEffect ==
    [][ (HandlerStep /\ resp'.user = None)
        => ( resp'.err = UNAUTHORIZED /\ tables' = tables ) ]_vars

C9_Witness ==
    /\ resp.op = "deleteMeeting"
    /\ resp.user = None
    /\ resp.err = UNAUTHORIZED
    /\ resp.input.id \in DOMAIN meetings

\* C10: with other requests running between updateMeeting's select and its update,
\* every updateMeeting that returns without an error returns a meeting row that the
\* caller owns.
C10_UpdateReturnsOwnedRow ==
    (resp.op = "updateMeeting" /\ resp.err = OK)
        => ( resp.out # None /\ resp.out[1].userId = resp.user[1] )

====
